---- MODULE Spec2Model ----
(***************************************************************************)
(* A model of react_api.py: the ReAct agent loop of main() and the         *)
(* brace-counting JSON extractor extract_json().                           *)
(*                                                                         *)
(* Text is a sequence of tokens.  A token is a piece of text that the      *)
(* program never looks inside: one character ("{", "}", the double quote,  *)
(* ":", ",", " ", the newline, a digit), one of the three markers the loop *)
(* searches for ("Final Answer:", "Action:", "Action Input:"; none of them *)
(* is a substring of another, and no other token sequence spells one), or  *)
(* a word.  The alphabet holds no backslash, so JSON strings have no       *)
(* escapes.                                                                *)
(***************************************************************************)
EXTENDS Integers, Sequences, FiniteSets

VARIABLES
    scratch_pad,         \* main: the transcript
    final_answer_found,  \* main: the loop flag
    final_answer,        \* main: the recorded answer (None until recorded)
    current_iteration,   \* main: the iteration counter
    llm_response,        \* main: the content of the completion last received
    response_message,    \* main: the stripped completion of this iteration
    pc,                  \* main: the position of the control flow
    exc,                 \* main: the exception that left main ("" when none)
    log,                 \* the records given to the logger, in order
    stdout,              \* the texts printed, in order
    requests,            \* the contents sent to get_chat_completions, in order
    calls,               \* the tool invocations, in order
    ej_in,               \* the argument of a direct call of extract_json
    ej_out,              \* the outcome of that call
    appended             \* history: how many times line 180 has run

vars == <<scratch_pad, final_answer_found, final_answer, current_iteration,
          llm_response, response_message, pc, exc, log, stdout, requests, calls, ej_in, ej_out, appended>>

loop_vars == <<scratch_pad, final_answer_found, final_answer, current_iteration,
               llm_response, response_message, pc, exc, log, stdout, requests, calls,
               appended>>

----------------------------------------------------------------------------
(* Bounds of the model *)

\* longest text enumerated exhaustively as an argument of extract_json
MaxLen == 7

\* the clock readings datetime.now() may give are 0..MaxClock
MaxClock == 1

----------------------------------------------------------------------------
(* Python's str operations, on token sequences; indices are 0-based as in *)
(* the source                                                              *)

QUOTE == "\""
NL == "\n"

At(s, i) == s[i + 1]

\* s[a:b]
Slice(s, a, b) == SubSeq(s, a + 1, b)

Whitespace == {" ", NL}

Digit == {"0", "1", "2", "3", "4", "5", "6", "7", "8", "9"}

\* s.find(c) for a one-token c: the first index, or -1
RECURSIVE FindFrom(_, _, _)
FindFrom(s, c, i) ==
    IF i >= Len(s) THEN -1
    ELSE IF At(s, i) = c THEN i
    ELSE FindFrom(s, c, i + 1)

find(s, c) == FindFrom(s, c, 0)

\* c in s
Contains(s, c) == find(s, c) # -1

\* s.split(c)[0]
SplitFirst(s, c) ==
    IF find(s, c) = -1 THEN s ELSE Slice(s, 0, find(s, c))

\* s.split(c)[1]; the caller makes sure that c is in s
SplitSecond(s, c) ==
    LET rest == Slice(s, find(s, c) + 1, Len(s))
    IN  SplitFirst(rest, c)

RECURSIVE LStrip(_)
LStrip(s) ==
    IF s # <<>> /\ Head(s) \in Whitespace THEN LStrip(Tail(s)) ELSE s

RECURSIVE RStrip(_)
RStrip(s) ==
    IF s # <<>> /\ s[Len(s)] \in Whitespace
    THEN RStrip(SubSeq(s, 1, Len(s) - 1)) ELSE s

\* s.strip()
Strip(s) == RStrip(LStrip(s))

IsPrefix(a, b) == Len(a) <= Len(b) /\ SubSeq(b, 1, Len(a)) = a

IsSuffix(a, b) == Len(a) <= Len(b) /\ SubSeq(b, Len(b) - Len(a) + 1, Len(b)) = a

----------------------------------------------------------------------------
(* JSON values: a string, an integer, or an object (its members in        *)
(* insertion order, each a pair <<key, value>>, keys distinct)             *)

None == [t |-> "none", v |-> <<>>]
JStr(toks) == [t |-> "str", v |-> toks]
JNum(n) == [t |-> "num", v |-> n]
JObj(members) == [t |-> "obj", v |-> members]

\* d[key] = val on a dict: a present key keeps its place and takes the value
DictSet(members, key, val) ==
    IF \E i \in 1..Len(members) : members[i][1] = key
    THEN [i \in 1..Len(members) |->
            IF members[i][1] = key THEN <<key, val>> ELSE members[i]]
    ELSE Append(members, <<key, val>>)

DictKeys(members) == {members[i][1] : i \in 1..Len(members)}

DictGet(members, key) ==
    LET i == CHOOSE j \in 1..Len(members) : members[j][1] = key
    IN  members[i][2]

----------------------------------------------------------------------------
(* json.loads: the decoder of the standard library, for the values above. *)
(* A parse gives [ok, val, end]: end is the index after the value.         *)

Fail == [ok |-> FALSE, val |-> None, end |-> 0]
Parsed(val, end) == [ok |-> TRUE, val |-> val, end |-> end]

RECURSIVE SkipWs(_, _)
SkipWs(s, i) ==
    IF i < Len(s) /\ At(s, i) \in Whitespace THEN SkipWs(s, i + 1) ELSE i

\* a string; s[i] is its opening quote.  A newline inside it is an error
\* (the decoder is strict about control characters).
RECURSIVE ScanString(_, _, _)
ScanString(s, begin, i) ==
    IF i >= Len(s) THEN Fail
    ELSE IF At(s, i) = QUOTE THEN Parsed(JStr(Slice(s, begin, i)), i + 1)
    ELSE IF At(s, i) = NL THEN Fail
    ELSE ScanString(s, begin, i + 1)

ParseString(s, i) == ScanString(s, i + 1, i + 1)

DigitValue(c) ==
    CASE c = "0" -> 0 [] c = "1" -> 1 [] c = "2" -> 2 [] c = "3" -> 3
      [] c = "4" -> 4 [] c = "5" -> 5 [] c = "6" -> 6 [] c = "7" -> 7
      [] c = "8" -> 8 [] c = "9" -> 9

RECURSIVE ScanDigits(_, _, _)
ScanDigits(s, i, acc) ==
    IF i < Len(s) /\ At(s, i) \in Digit
    THEN ScanDigits(s, i + 1, 10 * acc + DigitValue(At(s, i)))
    ELSE Parsed(JNum(acc), i)

\* an integer; s[i] is its first digit.  After a leading 0 the number ends.
ParseNumber(s, i) ==
    IF At(s, i) = "0" THEN Parsed(JNum(0), i + 1) ELSE ScanDigits(s, i, 0)

RECURSIVE ParseValue(_, _)
RECURSIVE ParseMembers(_, _, _)

\* an object; s[i] is its "{"
ParseObject(s, i) ==
    LET j == SkipWs(s, i + 1)
    IN  IF j >= Len(s) THEN Fail
        ELSE IF At(s, j) = "}" THEN Parsed(JObj(<<>>), j + 1)
        ELSE IF At(s, j) = QUOTE THEN ParseMembers(s, j, <<>>)
        ELSE Fail

\* the members of an object from the opening quote of a key at s[i]
ParseMembers(s, i, members) ==
    LET key == ParseString(s, i)
        colon == SkipWs(s, key.end)
    IN  IF ~key.ok \/ colon >= Len(s) \/ At(s, colon) # ":" THEN Fail
        ELSE LET val == ParseValue(s, SkipWs(s, colon + 1))
                 sep == SkipWs(s, val.end)
                 sofar == DictSet(members, key.val.v, val.val)
             IN  IF ~val.ok \/ sep >= Len(s) THEN Fail
                 ELSE IF At(s, sep) = "}" THEN Parsed(JObj(sofar), sep + 1)
                 ELSE IF At(s, sep) # "," THEN Fail
                 ELSE LET next == SkipWs(s, sep + 1)
                      IN  IF next >= Len(s) \/ At(s, next) # QUOTE THEN Fail
                          ELSE ParseMembers(s, next, sofar)

\* a value at s[i]
ParseValue(s, i) ==
    IF i >= Len(s) THEN Fail
    ELSE IF At(s, i) = QUOTE THEN ParseString(s, i)
    ELSE IF At(s, i) = "{" THEN ParseObject(s, i)
    ELSE IF At(s, i) \in Digit THEN ParseNumber(s, i)
    ELSE Fail

\* the outcome of a call: a returned value or a raised exception
Return(val) == [kind |-> "return", exc |-> "", msg |-> "", value |-> val]
Raise(e, m) == [kind |-> "raise", exc |-> e, msg |-> m, value |-> None]

\* json.loads(s): one value, white space around it allowed, nothing after it
json_loads(s) ==
    LET p == ParseValue(s, SkipWs(s, 0))
    IN  IF p.ok /\ SkipWs(s, p.end) = Len(s) THEN Return(p.val)
        ELSE Raise("JSONDecodeError", "")

----------------------------------------------------------------------------
(* extract_json *)

NotFoundMsg == "No JSON object found"
IncompleteMsg == "No complete JSON object found"

\* the loop without the count of the depth: the first "}" ends the block
ScanBraces_NoDepth(s, start, i, counter) ==
    IF \E j \in i..(Len(s) - 1) : At(s, j) = "}"
    THEN json_loads(Slice(s, start,
             (CHOOSE j \in i..(Len(s) - 1) :
                  At(s, j) = "}" /\ \A k \in i..(j - 1) : At(s, k) # "}") + 1))
    ELSE Raise("ValueError", IncompleteMsg)

\* the for loop of extract_json at index i with the counter's value
RECURSIVE ScanBraces(_, _, _, _)
ScanBraces(s, start, i, counter) ==
    IF i >= Len(s) THEN Raise("ValueError", IncompleteMsg)
    ELSE IF At(s, i) = "{" THEN ScanBraces(s, start, i + 1, counter + 1)
    ELSE IF At(s, i) = "}"
         THEN IF counter - 1 = 0 THEN json_loads(Slice(s, start, i + 1))
              ELSE ScanBraces(s, start, i + 1, counter - 1)
    ELSE ScanBraces(s, start, i + 1, counter)

\* extract_json without the test of line 32: the scan starts at s[-1], finds
\* no brace and ends in the error of line 44
extract_json_NoStartTest(s) ==
    LET start == find(s, "{")
    IN  IF start = -1 THEN Raise("ValueError", IncompleteMsg)
        ELSE ScanBraces(s, start, start, 0)

extract_json(s) ==
    LET start == find(s, "{")
    IN  IF start = -1 THEN Raise("ValueError", NotFoundMsg)
        ELSE ScanBraces(s, start, start, 0)

----------------------------------------------------------------------------
(* The tools and the registry tool_maps *)

DigitToken(d) == <<"0", "1", "2", "3", "4", "5", "6", "7", "8", "9">>[d + 1]

\* str(n) for n >= 0
RECURSIVE Decimal(_)
Decimal(n) ==
    IF n < 10 THEN <<DigitToken(n)>>
    ELSE Append(Decimal(n \div 10), DigitToken(n % 10))

\* json.dumps(value) with the default separators
RECURSIVE json_dumps(_)
RECURSIVE DumpMembers(_, _)
json_dumps(val) ==
    CASE val.t = "str" -> <<QUOTE>> \o val.v \o <<QUOTE>>
      [] val.t = "num" -> Decimal(val.v)
      [] val.t = "obj" -> <<"{">> \o DumpMembers(val.v, 1) \o <<"}">>

DumpMembers(members, i) ==
    IF i > Len(members) THEN <<>>
    ELSE (IF i > 1 THEN <<",", " ">> ELSE <<>>)
         \o <<QUOTE>> \o members[i][1] \o <<QUOTE, ":", " ">>
         \o json_dumps(members[i][2])
         \o DumpMembers(members, i + 1)

\* new_time.strftime(...): the text of the clock reading n
strftime(n) == <<"time">> \o Decimal(n)

\* get_current_time(**kwargs) when datetime.now() reads now
get_current_time(kwargs, now) ==
    IF ~(DictKeys(kwargs) \subseteq {<<"seconds_offset">>})
    THEN Raise("TypeError", "unexpected keyword argument")
    ELSE LET seconds_offset ==
                 IF <<"seconds_offset">> \in DictKeys(kwargs)
                 THEN DictGet(kwargs, <<"seconds_offset">>) ELSE JNum(0)
         IN  IF seconds_offset.t # "num"
             THEN Raise("TypeError", "unsupported type for timedelta seconds component")
             ELSE Return(JStr(strftime(now + seconds_offset.v)))

\* get_weather(**kwargs)
get_weather(kwargs) ==
    IF ~(DictKeys(kwargs) \subseteq {<<"city">>, <<"timestamp">>})
    THEN Raise("TypeError", "unexpected keyword argument")
    ELSE IF <<"city">> \notin DictKeys(kwargs)
    THEN Raise("TypeError", "missing required positional argument")
    ELSE Return(JStr(json_dumps(JObj(<<
             << <<"temperature">>, JNum(25) >>,
             << <<"weather">>, JStr(<<"sunny">>) >>,
             << <<"city">>, DictGet(kwargs, <<"city">>) >> >>))))

ToolNames == {"get_current_time", "get_weather"}

\* a lookup by the first word of the action text
tool_maps_get_FirstWord(action) ==
    IF action # <<>> /\ action[1] \in ToolNames THEN action[1] ELSE "None"

\* tool_maps.get(action): the name of the function, or "None"
tool_maps_get(action) ==
    IF Len(action) = 1 /\ action[1] \in ToolNames THEN action[1] ELSE "None"

\* the call wrapped in a try that turns the exception of a tool into a result
CallTool_Caught(tool, kwargs, now) ==
    LET outcome == IF tool = "get_current_time" THEN get_current_time(kwargs, now)
                   ELSE get_weather(kwargs)
    IN  IF outcome.kind = "raise" THEN Return(JStr(<<"error">>)) ELSE outcome

\* tool(**tool_arguments)
CallTool(tool, kwargs, now) ==
    IF tool = "get_current_time" THEN get_current_time(kwargs, now)
    ELSE get_weather(kwargs)

Clock == 0..MaxClock

----------------------------------------------------------------------------
(* The completions the model backend may return *)

FA == "Final Answer:"
ACT == "Action:"
AI == "Action Input:"

Thought == <<"Thought:", " ", "think">>
ActionLine(name) == <<ACT, " ", name>>
InputLine(text) == <<AI, " ">> \o text
FinalLine(answer) == <<FA, " ", answer>>

JCity == <<"{", QUOTE, "city", QUOTE, ":", " ", QUOTE, "Paris", QUOTE, "}">>
JOffset == <<"{", QUOTE, "seconds_offset", QUOTE, ":", " ", "1", "}">>
JOffsetStr == <<"{", QUOTE, "seconds_offset", QUOTE, ":", " ", QUOTE, "x", QUOTE, "}">>
JEmpty == <<"{", "}">>
JUnbalanced == <<"{", QUOTE, "city", QUOTE, ":", " ", "1">>
JMalformed == <<"{", "city", "}">>
JBraceInString == <<"{", QUOTE, "city", QUOTE, ":", " ", QUOTE, "}", QUOTE, "}">>
JNone == <<"Paris">>

ActionText(name, text) == ActionLine(name) \o <<NL>> \o InputLine(text)

\* a thought alone, with white space around it
CThink == <<" ">> \o Thought \o <<NL>>
CWeather == Thought \o <<NL>> \o ActionText("get_weather", JCity) \o <<NL>>
CFinal == Thought \o <<NL>> \o FinalLine("X") \o <<NL>>
CTwoFinals == FinalLine("X") \o <<NL>> \o FinalLine("Y")
CTimeBadType == ActionText("get_current_time", JOffsetStr)
CWeatherNoCity == ActionText("get_weather", JEmpty)
CUnknown == ActionText("foo", JEmpty)
CUnknownUnbalanced == ActionText("foo", JUnbalanced)
CUnknownNoJson == ActionText("foo", JNone)
CUnknownOneLine == <<ACT, " ", "get_weather", " ">> \o InputLine(JCity)
CNoJson == ActionText("get_weather", JNone)
CUnbalanced == ActionText("get_weather", JUnbalanced)
CMalformed == ActionText("get_weather", JMalformed)
CBraceInString == ActionText("get_weather", JBraceInString)
CInputOnly == InputLine(JEmpty)
CBothKnown == FinalLine("X") \o <<NL>> \o ActionText("get_current_time", JOffset)
CBothUnknown == FinalLine("X") \o <<NL>> \o ActionText("foo", JEmpty)
CBothUnbalanced == ActionText("get_weather", JUnbalanced) \o <<NL>> \o FinalLine("X")

Completions ==
    {CThink, CWeather, CFinal, CTwoFinals, CTimeBadType, CWeatherNoCity,
     CUnknown, CUnknownUnbalanced, CUnknownNoJson, CUnknownOneLine, CNoJson,
     CUnbalanced, CMalformed, CBraceInString, CInputOnly, CBothKnown,
     CBothUnknown, CBothUnbalanced}

prompt == <<"PROMPT">>

Questions == {<<"What", " ", "time", " ", "is", " ", "it?">>}

----------------------------------------------------------------------------
(* main().  pc is the place the control is at:                             *)
(*   "while"   the loop test, line 162                                     *)
(*   "cap"     the completion is back, before the test of line 170         *)
(*   "action"  the completion is appended and the first if is done,        *)
(*             before the second if, line 188                              *)
(*   "done"    main has returned                                           *)
(*   "raised"  an exception has left main                                  *)
(* The logger's debug records are not part of the model.                   *)

MaxIterations == 10

NotCalled == [kind |-> "none", exc |-> "", msg |-> "", value |-> None]

LogRecord(level, text) == [level |-> level, text |-> text]

MaxIterationsMsg == <<"Max iterations reached. Exiting">>
ToolNotFoundMsg == <<"Tool not found. Exiting!">>

InitLoop ==
    /\ \E question \in Questions :
           scratch_pad = prompt \o <<NL, "Question:", " ">> \o question
    /\ final_answer_found = FALSE
    /\ final_answer = None
    /\ current_iteration = 0
    /\ appended = 0
    /\ llm_response = <<>>
    /\ response_message = <<>>
    /\ pc = "while"
    /\ exc = ""
    /\ log = <<>>
    /\ stdout = <<>>
    /\ requests = <<>>
    /\ calls = <<>>

Init ==
    /\ InitLoop
    /\ ej_in = <<>>
    /\ ej_out = NotCalled

\* line 162: the loop test fails once the flag is set
LoopExit ==
    /\ pc = "while"
    /\ final_answer_found
    /\ pc' = "done"
    /\ UNCHANGED <<scratch_pad, final_answer_found, final_answer, current_iteration,
                   llm_response, response_message, exc, log, stdout, requests,
                   calls, ej_in, ej_out, appended>>

\* lines 164-168 without line 163: the counter stays
Request_NoIncrement ==
    /\ pc = "while"
    /\ ~final_answer_found
    /\ requests' = Append(requests, scratch_pad)
    /\ \E content \in Completions : llm_response' = content
    /\ pc' = "cap"
    /\ UNCHANGED <<scratch_pad, final_answer_found, final_answer, current_iteration,
                   response_message, exc, log, stdout, calls, ej_in, ej_out, appended>>

\* lines 162-168: the counter goes up and the completion is requested and
\* comes back
Request ==
    /\ pc = "while"
    /\ ~final_answer_found
    /\ current_iteration' = current_iteration + 1
    /\ requests' = Append(requests, scratch_pad)
    /\ \E content \in Completions : llm_response' = content
    /\ pc' = "cap"
    /\ UNCHANGED <<scratch_pad, final_answer_found, final_answer, response_message,
                   exc, log, stdout, calls, ej_in, ej_out, appended>>

\* lines 162-168, 61-62: the request is sent and fails (no connection, or
\* raise_for_status on a failure status)
RequestFails ==
    /\ pc = "while"
    /\ ~final_answer_found
    /\ current_iteration' = current_iteration + 1
    /\ requests' = Append(requests, scratch_pad)
    /\ exc' = "RequestException"
    /\ pc' = "raised"
    /\ UNCHANGED <<scratch_pad, final_answer_found, final_answer, llm_response,
                   response_message, log, stdout, calls, ej_in, ej_out, appended>>

\* lines 170-173 placed after line 180: the completion is appended before
\* the counter is tested
MaxIterationsReached_AfterAppend ==
    /\ pc = "cap"
    /\ current_iteration > MaxIterations
    /\ scratch_pad' = scratch_pad \o <<NL>> \o Strip(llm_response)
    /\ log' = Append(log, LogRecord("error", MaxIterationsMsg))
    /\ stdout' = Append(stdout, scratch_pad')
    /\ appended' = appended + 1
    /\ pc' = "done"
    /\ UNCHANGED <<final_answer_found, final_answer, current_iteration,
                   llm_response, response_message, exc, requests, calls, ej_in,
                   ej_out>>

\* lines 170-173
MaxIterationsReached ==
    /\ pc = "cap"
    /\ current_iteration > MaxIterations
    /\ log' = Append(log, LogRecord("error", MaxIterationsMsg))
    /\ stdout' = Append(stdout, scratch_pad)
    /\ pc' = "done"
    /\ UNCHANGED <<scratch_pad, final_answer_found, final_answer, current_iteration,
                   llm_response, response_message, exc, requests, calls, ej_in,
                   ej_out, appended>>

\* line 180 with the old transcript left out
AppendCompletion_Overwrite(pad, message) == <<NL>> \o message

\* line 180
AppendCompletion(pad, message) == pad \o <<NL>> \o message

\* line 184
ExtractFinalAnswer(message) == Strip(SplitSecond(message, FA))

\* lines 175-186 without the test of line 170 before them
Classify_NoCap ==
    /\ pc = "cap"
    /\ response_message' = Strip(llm_response)
    /\ scratch_pad' = AppendCompletion(scratch_pad, response_message')
    /\ IF Contains(response_message', FA)
       THEN /\ final_answer_found' = TRUE
            /\ final_answer' = JStr(ExtractFinalAnswer(response_message'))
            /\ log' = Append(log, LogRecord("info", final_answer'.v))
       ELSE UNCHANGED <<final_answer_found, final_answer, log>>
    /\ appended' = appended + 1
    /\ pc' = "action"
    /\ UNCHANGED <<current_iteration, llm_response, exc, stdout, requests, calls,
                   ej_in, ej_out>>

\* lines 175-186: the completion is stripped and appended, and the first if
\* records the final answer
Classify ==
    /\ pc = "cap"
    /\ ~(current_iteration > MaxIterations)
    /\ response_message' = Strip(llm_response)
    /\ scratch_pad' = AppendCompletion(scratch_pad, response_message')
    /\ IF Contains(response_message', FA)
       THEN /\ final_answer_found' = TRUE
            /\ final_answer' = JStr(ExtractFinalAnswer(response_message'))
            /\ log' = Append(log, LogRecord("info", final_answer'.v))
       ELSE UNCHANGED <<final_answer_found, final_answer, log>>
    /\ appended' = appended + 1
    /\ pc' = "action"
    /\ UNCHANGED <<current_iteration, llm_response, exc, stdout, requests, calls,
                   ej_in, ej_out>>

\* line 189
ActionName(message) == Strip(SplitFirst(SplitSecond(message, ACT), NL))

\* lines 190-192
ActionInput(message) == Strip(SplitFirst(SplitSecond(message, AI), NL))

\* line 194
LookupTool(message) == tool_maps_get(ActionName(message))

\* line 198 with the old transcript left out
AppendObservation_Overwrite(pad, tool_response) ==
    <<NL, "Observation:", " ">> \o tool_response

\* line 198
AppendObservation(pad, tool_response) ==
    pad \o <<NL, "Observation:", " ">> \o tool_response

\* line 188 with a break after the if: without "Action Input:" main returns
NoAction_Break ==
    /\ pc = "action"
    /\ ~Contains(response_message, AI)
    /\ pc' = "done"
    /\ UNCHANGED <<scratch_pad, final_answer_found, final_answer, current_iteration,
                   llm_response, response_message, exc, log, stdout, requests,
                   calls, ej_in, ej_out, appended>>

\* line 188: no "Action Input:", the body of the loop ends
NoAction ==
    /\ pc = "action"
    /\ ~Contains(response_message, AI)
    /\ pc' = "while"
    /\ UNCHANGED <<scratch_pad, final_answer_found, final_answer, current_iteration,
                   llm_response, response_message, exc, log, stdout, requests,
                   calls, ej_in, ej_out, appended>>

\* line 189: split("Action:")[1] without an "Action:" is an IndexError
ActionMissing ==
    /\ pc = "action"
    /\ Contains(response_message, AI)
    /\ ~Contains(response_message, ACT)
    /\ exc' = "IndexError"
    /\ pc' = "raised"
    /\ UNCHANGED <<scratch_pad, final_answer_found, final_answer, current_iteration,
                   llm_response, response_message, log, stdout, requests, calls,
                   ej_in, ej_out, appended>>

\* lines 188-194, 201-203: the name is no key of tool_maps
ToolNotFound ==
    /\ pc = "action"
    /\ Contains(response_message, AI)
    /\ Contains(response_message, ACT)
    /\ LookupTool(response_message) = "None"
    /\ log' = Append(log, LogRecord("error", ToolNotFoundMsg))
    /\ pc' = "done"
    /\ UNCHANGED <<scratch_pad, final_answer_found, final_answer, current_iteration,
                   llm_response, response_message, exc, stdout, requests, calls,
                   ej_in, ej_out, appended>>

\* lines 195-196 run before the test of line 194: extract_json refuses the
\* action input whatever the action name is
ArgumentsFail_BeforeLookup ==
    /\ pc = "action"
    /\ Contains(response_message, AI)
    /\ Contains(response_message, ACT)
    /\ LET tool_arguments == extract_json(ActionInput(response_message))
       IN  /\ tool_arguments.kind = "raise"
           /\ exc' = tool_arguments.exc
    /\ pc' = "raised"
    /\ UNCHANGED <<scratch_pad, final_answer_found, final_answer, current_iteration,
                   llm_response, response_message, log, stdout, requests, calls,
                   ej_in, ej_out, appended>>

\* lines 188-196: the tool is known and extract_json raises
ArgumentsFail ==
    /\ pc = "action"
    /\ Contains(response_message, AI)
    /\ Contains(response_message, ACT)
    /\ LookupTool(response_message) # "None"
    /\ LET tool_arguments == extract_json(ActionInput(response_message))
       IN  /\ tool_arguments.kind = "raise"
           /\ exc' = tool_arguments.exc
    /\ pc' = "raised"
    /\ UNCHANGED <<scratch_pad, final_answer_found, final_answer, current_iteration,
                   llm_response, response_message, log, stdout, requests, calls,
                   ej_in, ej_out, appended>>

\* lines 188-200: the tool is known, the arguments are extracted and the
\* tool is called; its result is appended as the observation, or its
\* exception leaves main
Dispatch ==
    /\ pc = "action"
    /\ Contains(response_message, AI)
    /\ Contains(response_message, ACT)
    /\ LookupTool(response_message) # "None"
    /\ LET tool == LookupTool(response_message)
           tool_arguments == extract_json(ActionInput(response_message))
       IN  /\ tool_arguments.kind = "return"
           /\ \E now \in Clock :
                LET tool_response == CallTool(tool, tool_arguments.value.v, now)
                IN  /\ calls' = Append(calls, [tool |-> tool,
                                               arguments |-> tool_arguments.value,
                                               outcome |-> tool_response])
                    /\ IF tool_response.kind = "return"
                       THEN /\ scratch_pad' =
                                  AppendObservation(scratch_pad, tool_response.value.v)
                            /\ pc' = "while"
                            /\ exc' = exc
                       ELSE /\ exc' = tool_response.exc
                            /\ pc' = "raised"
                            /\ scratch_pad' = scratch_pad
    /\ UNCHANGED <<final_answer_found, final_answer, current_iteration, llm_response,
                   response_message, log, stdout, requests, ej_in, ej_out, appended>>

Next ==
    \/ LoopExit
    \/ Request
    \/ RequestFails
    \/ MaxIterationsReached
    \/ Classify
    \/ NoAction
    \/ ActionMissing
    \/ ToolNotFound
    \/ ArgumentsFail
    \/ Dispatch

Spec == Init /\ [][Next]_vars

----------------------------------------------------------------------------
(* extract_json called directly on a text *)

EJAlphabet == {"{", "}", QUOTE, ":", "1", " "}

\* the examples of the documentation, and texts with a brace inside a string
EJExamples ==
    {<<"noise", " ", "{", QUOTE, "a", QUOTE, ":", " ", "{", QUOTE, "b", QUOTE, ":",
       " ", "1", "}", "}", " ", "trailing">>,
     <<"{", QUOTE, "a", QUOTE, ":", " ", "1">>,
     <<"{", QUOTE, "a", QUOTE, ":", "1", ",", " ", QUOTE, "b", QUOTE, ":", "{", "}",
       "}", "}">>,
     JBraceInString,
     <<"{", QUOTE, "{", QUOTE, ":", "1", "}">>,
     <<"x", "{", QUOTE, "}", QUOTE, ":", "1", "}", "}">>}

InitExtract ==
    /\ InitLoop
    /\ \/ \E k \in 0..MaxLen : ej_in \in [1..k -> EJAlphabet]
       \/ ej_in \in EJExamples
    /\ ej_out = NotCalled

CallExtract ==
    /\ ej_out = NotCalled
    /\ ej_out' = extract_json(ej_in)
    /\ UNCHANGED <<ej_in, loop_vars>>

NextExtract == CallExtract

SpecExtract == InitExtract /\ [][NextExtract]_vars

----------------------------------------------------------------------------
(* What a run has reported *)

Logged(level, text) ==
    \E i \in 1..Len(log) : log[i] = LogRecord(level, text)

\* the loop recorded a final answer
Finished == final_answer_found

AbortedMaxIterations == Logged("error", MaxIterationsMsg)

AbortedUnknownTool == Logged("error", ToolNotFoundMsg)

Aborted == AbortedMaxIterations \/ AbortedUnknownTool

\* an exception of extract_json left main
ParseFailed == pc = "raised" /\ exc \in {"ValueError", "JSONDecodeError"}

\* the outcomes the run has reported
Outcomes ==
    (IF Finished THEN {"FinalAnswer"} ELSE {})
    \cup (IF AbortedMaxIterations THEN {"MaxIterationsExceeded"} ELSE {})
    \cup (IF AbortedUnknownTool THEN {"UnknownTool"} ELSE {})
    \cup (IF ParseFailed THEN {"ParseFailure"} ELSE {})

\* RUNNING, FINISHED or ABORTED(reason), as the facts that decide it
LoopState == <<Finished, AbortedMaxIterations, AbortedUnknownTool>>

\* the keys of tool_maps, as texts
RegistryKeys == {<<"get_current_time">>, <<"get_weather">>}

\* the completion being handled names an action: both markers of an action
\* are in it
RequestsAction ==
    /\ pc = "action"
    /\ Contains(response_message, AI)
    /\ Contains(response_message, ACT)

LastCall == calls[Len(calls)]

----------------------------------------------------------------------------
(* The claims about the loop *)

\* C1: when the completion holds both "Final Answer:" and "Action Input:",
\* the final answer is recorded and no tool is invoked, in that iteration
\* or at any later step.
C1_FinalAnswerWins ==
    [][/\ (pc = "action" /\ Contains(response_message, FA)
               /\ Contains(response_message, AI))
           => (calls' = calls /\ final_answer_found')
       /\ final_answer_found => calls' = calls]_vars

\* C2: a run never issues more than 10 completion requests, and a run that
\* ends in MaxIterationsExceeded has issued exactly 10.
C2_AtMostTenRequests ==
    /\ Len(requests) <= MaxIterations
    /\ AbortedMaxIterations => Len(requests) = MaxIterations

\* C3: when the completion being handled names an action that is no key of
\* the registry, the step logs the tool-not-found error and main returns:
\* no tool is invoked, the transcript gets no observation, no request is
\* sent and no exception leaves main; and nothing happens after main has
\* returned.
C3_UnknownToolAborts ==
    [][/\ (RequestsAction /\ ActionName(response_message) \notin RegistryKeys)
           => /\ pc' = "done"
              /\ exc' = ""
              /\ log' = Append(log, LogRecord("error", ToolNotFoundMsg))
              /\ calls' = calls
              /\ scratch_pad' = scratch_pad
              /\ requests' = requests
       /\ pc = "done" => UNCHANGED vars]_vars

\* C3 witness: main has returned on an unknown tool whose action input
\* extract_json would have refused.
C3_Witness ==
    /\ pc = "done"
    /\ AbortedUnknownTool
    /\ ~final_answer_found
    /\ ActionName(response_message) \notin RegistryKeys
    /\ extract_json(ActionInput(response_message)).kind = "raise"
    /\ calls = <<>>

\* the tool named is known, extract_json returns the arguments, and the
\* completion has no "Final Answer:"
KnownToolParsable ==
    /\ RequestsAction
    /\ ~Contains(response_message, FA)
    /\ ActionName(response_message) \in RegistryKeys
    /\ extract_json(ActionInput(response_message)).kind = "return"

\* the step invoked the tool once with the extracted arguments, appended
\* its result as the observation right after the completion, and went back
\* to the loop test with the flag unset
ObservationAppended ==
    /\ Len(calls') = Len(calls) + 1
    /\ SubSeq(calls', 1, Len(calls)) = calls
    /\ calls'[Len(calls')].tool = ActionName(response_message)[1]
    /\ calls'[Len(calls')].arguments =
           extract_json(ActionInput(response_message)).value
    /\ calls'[Len(calls')].outcome.kind = "return"
    /\ scratch_pad' = scratch_pad \o <<NL, "Observation:", " ">>
                          \o calls'[Len(calls')].outcome.value.v
    /\ IsSuffix(response_message \o <<NL, "Observation:", " ">>
                    \o calls'[Len(calls')].outcome.value.v, scratch_pad')
    /\ pc' = "while"
    /\ ~final_answer_found'

\* the step from the loop test sends the transcript as it stands
NextRequestSendsTranscript ==
    (pc = "while" /\ ~final_answer_found)
        => (Len(requests') = Len(requests) + 1
            /\ requests'[Len(requests')] = scratch_pad)

\* C4 as stated: a completion without "Final Answer:" that names a known
\* tool with parsable arguments gets the tool invoked once, the observation
\* appended, the loop kept running and the next request sent with the
\* transcript that ends in the observation.
C4_KnownToolObserved ==
    [][/\ KnownToolParsable => ObservationAppended
       /\ NextRequestSendsTranscript]_vars

\* the tool called with the extracted arguments returns, whatever the clock
ToolReturns ==
    \A now \in Clock :
        CallTool(ActionName(response_message)[1],
                 extract_json(ActionInput(response_message)).value.v,
                 now).kind = "return"

\* C4 amended: the same, when the tool called with these arguments returns
\* a result.
C4_KnownToolObservedWhenToolReturns ==
    [][/\ (KnownToolParsable /\ ToolReturns) => ObservationAppended
       /\ NextRequestSendsTranscript]_vars

\* C4 witness: the request after a tool call is out, and the transcript it
\* carries ends in the observation of that call.
C4_Witness ==
    /\ pc = "cap"
    /\ calls # <<>>
    /\ ~final_answer_found
    /\ LastCall.outcome.kind = "return"
    /\ IsSuffix(response_message \o <<NL, "Observation:", " ">>
                    \o LastCall.outcome.value.v, requests[Len(requests)])

\* C5: every step leaves the old transcript as a prefix of the new one, the
\* transcript starts with prompt and question, and what a step adds is
\* either the completion just received or the observation of the tool call
\* just made.
C5_TranscriptAppendOnly ==
    [][/\ IsPrefix(scratch_pad, scratch_pad')
       /\ IsPrefix(prompt \o <<NL, "Question:", " ">>, scratch_pad)
       /\ \/ scratch_pad' = scratch_pad
          \/ scratch_pad' = scratch_pad \o <<NL>> \o Strip(llm_response)
          \/ /\ Len(calls') = Len(calls) + 1
             /\ scratch_pad' = scratch_pad \o <<NL, "Observation:", " ">>
                                   \o calls'[Len(calls')].outcome.value.v]_vars

\* C5 witness: a run that appended two completions and an observation.
C5_Witness ==
    /\ current_iteration >= 2
    /\ pc = "action"
    /\ calls # <<>>
    /\ Len(scratch_pad) > Len(response_message) + Len(LastCall.outcome.value.v)

\* C6: once a final answer is recorded or the run has aborted, no step
\* sends a request, invokes a tool, changes the transcript or changes the
\* state of the loop.
C6_TerminalAbsorbing ==
    [][(Finished \/ Aborted)
           => UNCHANGED <<requests, calls, scratch_pad, LoopState>>]_vars

\* C7: a run reports at most one of the outcomes FinalAnswer,
\* MaxIterationsExceeded, UnknownTool and ParseFailure.
C7_OneOutcome == Cardinality(Outcomes) <= 1

----------------------------------------------------------------------------
(* The claims about extract_json *)

Called == ej_out # NotCalled

HasBrace(s) == \E i \in 1..Len(s) : s[i] = "{"

\* the index of the first "{" of s
FirstBrace(s) == CHOOSE i \in 0..(Len(s) - 1) :
                     At(s, i) = "{" /\ \A j \in 0..(i - 1) : At(s, j) # "{"

\* the depth after s[i], counted from the first "{"
Depth(s, i) ==
    Cardinality({j \in FirstBrace(s)..i : At(s, j) = "{"})
        - Cardinality({j \in FirstBrace(s)..i : At(s, j) = "}"})

\* the depth never comes back to zero before the text ends
DepthNeverZero(s) ==
    HasBrace(s) /\ \A i \in FirstBrace(s)..(Len(s) - 1) : Depth(s, i) # 0

\* C8: when the first "{" of the text begins a valid JSON object,
\* extract_json returns that object.
C8_ReturnsFirstObject ==
    (Called /\ HasBrace(ej_in) /\ ParseObject(ej_in, FirstBrace(ej_in)).ok)
        => ej_out = Return(ParseObject(ej_in, FirstBrace(ej_in)).val)

\* C9: when the depth counted from the first "{" never comes back to zero,
\* extract_json raises the incomplete-object error and returns nothing.
C9_UnbalancedIsIncomplete ==
    (Called /\ DepthNeverZero(ej_in))
        => ej_out = Raise("ValueError", IncompleteMsg)

\* C9 witness: the error on a text with a closing brace that does not close
\* the first "{".
C9_Witness ==
    /\ Called
    /\ DepthNeverZero(ej_in)
    /\ \E i \in 1..Len(ej_in) : ej_in[i] = "}"
    /\ ej_out = Raise("ValueError", IncompleteMsg)

\* C10: extract_json raises the not-found error on the texts without "{"
\* and on no other text; the error of an unbalanced block is another one.
C10_NoBraceIsNotFound ==
    Called =>
        /\ ~HasBrace(ej_in) <=> ej_out = Raise("ValueError", NotFoundMsg)
        /\ DepthNeverZero(ej_in) => ej_out # Raise("ValueError", NotFoundMsg)

\* C10 witness: the not-found error on a text that has a closing brace and
\* a quote but no "{".
C10_Witness ==
    /\ Called
    /\ Len(ej_in) >= 2
    /\ \E i \in 1..Len(ej_in) : ej_in[i] = "}"
    /\ ~HasBrace(ej_in)
    /\ ej_out = Raise("ValueError", NotFoundMsg)

----------------------------------------------------------------------------
(* The claims about the behaviour of the loop *)

\* C11: when the counter is above the cap the completion of that iteration
\* (the 11th) has been requested and is back; the step then logs the error,
\* emits the transcript and main returns without an exception.  The
\* completion is neither classified nor appended: the transcript emitted is
\* the one the 11th request carried, as it stood after the 10th iteration.
C11_CapSkipsCompletion ==
    [][(pc = "cap" /\ current_iteration > MaxIterations)
           => /\ current_iteration = MaxIterations + 1
              /\ Len(requests) = MaxIterations + 1
              /\ requests[Len(requests)] = scratch_pad
              /\ pc' = "done"
              /\ exc' = ""
              /\ log' = Append(log, LogRecord("error", MaxIterationsMsg))
              /\ stdout' = Append(stdout, scratch_pad)
              /\ UNCHANGED <<scratch_pad, response_message, final_answer_found,
                             final_answer, calls, requests>>]_vars

\* C11 witness: main has returned on the cap, and the 11th completion held
\* a final answer that was never recorded.
C11_Witness ==
    /\ pc = "done"
    /\ AbortedMaxIterations
    /\ Contains(llm_response, FA)
    /\ ~final_answer_found
    /\ stdout = <<scratch_pad>>
    /\ Len(requests) = MaxIterations + 1

\* the text holds neither "Final Answer:" nor "Action Input:"
NeitherMarker(text) == ~Contains(text, FA) /\ ~Contains(text, AI)

\* what a step of the iteration leaves alone besides the transcript
NothingElseChanges ==
    UNCHANGED <<calls, log, stdout, requests, exc, final_answer_found,
                final_answer, current_iteration>>

\* the second half of the iteration of a completion with neither marker:
\* nothing changes and the control is back at the loop test
PassThrough ==
    (pc = "action" /\ NeitherMarker(response_message))
        => (pc' = "while" /\ scratch_pad' = scratch_pad /\ NothingElseChanges)

ExtractedArguments == extract_json(ActionInput(response_message))

\* the outcome of the function the completion names, on the extracted
\* arguments, when the clock reads now
ToolOutcome(now) ==
    IF ActionName(response_message) = <<"get_current_time">>
    THEN get_current_time(ExtractedArguments.value.v, now)
    ELSE get_weather(ExtractedArguments.value.v)

KnownTool == RequestsAction /\ ActionName(response_message) \in RegistryKeys

\* C13: when the completion names a known tool and extract_json raises on
\* the action input, or the tool raises on the extracted arguments, that
\* exception leaves main in the same step: the transcript ends with the
\* completion and gets no observation, no request is sent, and nothing
\* happens afterwards.
C13_DispatchErrorEscapes ==
    [][/\ (KnownTool /\ ExtractedArguments.kind = "raise")
           => /\ pc' = "raised"
              /\ exc' = ExtractedArguments.exc
              /\ calls' = calls
              /\ UNCHANGED <<scratch_pad, requests, log>>
       /\ (KnownTool /\ ExtractedArguments.kind = "return"
               /\ \A now \in Clock : ToolOutcome(now).kind = "raise")
           => /\ pc' = "raised"
              /\ \E now \in Clock : exc' = ToolOutcome(now).exc
              /\ Len(calls') = Len(calls) + 1
              /\ UNCHANGED <<scratch_pad, requests, log>>
       /\ pc = "action" => IsSuffix(<<NL>> \o response_message, scratch_pad)
       /\ pc = "raised" => UNCHANGED vars]_vars

\* C13 witness: the TypeError of a known tool has left main; the transcript
\* ends with the completion that asked for the tool.
C13_Witness ==
    /\ pc = "raised"
    /\ exc = "TypeError"
    /\ calls # <<>>
    /\ LastCall.outcome.kind = "raise"
    /\ ActionName(response_message) \in RegistryKeys
    /\ IsSuffix(<<NL>> \o response_message, scratch_pad)

\* all of the text after the first occurrence of the marker
AfterFirst(text, marker) == Slice(text, find(text, marker) + 1, Len(text))

\* C14: the recorded final answer is all of the completion after the first
\* "Final Answer:", with the white space at its two ends removed.
C14_AnswerIsRestOfText ==
    final_answer_found
        => final_answer = JStr(Strip(AfterFirst(response_message, FA)))

\* the three ways the iteration of an action request may end
EndsUnknownTool ==
    /\ pc' = "done"
    /\ log' = Append(log, LogRecord("error", ToolNotFoundMsg))
    /\ calls' = calls

EndsObserved ==
    /\ Len(calls') = Len(calls) + 1
    /\ calls'[Len(calls')].outcome.kind = "return"
    /\ scratch_pad' = scratch_pad \o <<NL, "Observation:", " ">>
                          \o calls'[Len(calls')].outcome.value.v
    /\ pc' = "while"

EndsDispatchError ==
    /\ pc' = "raised"
    /\ exc' \in {"ValueError", "JSONDecodeError", "TypeError"}
    /\ scratch_pad' = scratch_pad

\* C15: a completion with "Action Input:" and without "Final Answer:" gives
\* an action name and an action input, the name is looked up, and the
\* iteration ends in exactly one of: the unknown-tool abort, the tool
\* invoked and its observation appended, an error of the extractor or of
\* the tool.
C15_ActionRequestEndsOneWay ==
    [][(pc = "action" /\ Contains(response_message, AI)
            /\ ~Contains(response_message, FA))
           => /\ Contains(response_message, ACT)
              /\ Cardinality({w \in {"unknown", "observed", "error"} :
                     \/ w = "unknown" /\ EndsUnknownTool
                     \/ w = "observed" /\ EndsObserved
                     \/ w = "error" /\ EndsDispatchError}) = 1
              /\ EndsUnknownTool
                     <=> ActionName(response_message) \notin RegistryKeys]_vars

\* main has returned or an exception has left it
Terminated == pc \in {"done", "raised"}

\* the place of the control within an iteration, counted down to the loop
\* test that ends it
PlaceRank ==
    CASE pc = "cap" -> 3
      [] pc = "action" -> 2
      [] pc = "while" -> 1
      [] OTHER -> 0

\* the number of steps the run has left at most
Rank ==
    IF Terminated THEN 0
    ELSE 4 * (MaxIterations + 1 - current_iteration) + PlaceRank

\* C16: every run stops, whatever the completions are, when every request
\* and every tool call comes back: each step of the loop takes the run
\* strictly closer to its end, by a measure that is never negative, so no
\* sequence of completions keeps the loop running for more than
\* 4 * (MaxIterations + 1) + 1 steps.
C16_Terminates ==
    [][/\ Rank' < Rank
       /\ Rank' >= 0
       /\ Rank <= 4 * (MaxIterations + 1) + 1]_vars

\* C16 witness: a run that called a tool and was stopped by the cap.
C16_Witness ==
    /\ Terminated
    /\ AbortedMaxIterations
    /\ calls # <<>>
    /\ current_iteration = MaxIterations + 1

\* C17: the action input reaches extract_json only after the action name
\* was found in the registry: a step that ends in a parse failure, or that
\* records a tool call, starts from a completion naming a registered tool;
\* and a completion naming an unknown tool whose action input extract_json
\* would refuse ends as UnknownTool, main returning with no exception.
C17_LookupBeforeExtract ==
    [][/\ (ParseFailed' /\ ~ParseFailed)
           => (RequestsAction /\ ActionName(response_message) \in RegistryKeys)
       /\ calls' # calls
           => (RequestsAction /\ ActionName(response_message) \in RegistryKeys)
       /\ (/\ RequestsAction
           /\ ActionName(response_message) \notin RegistryKeys
           /\ extract_json(ActionInput(response_message)).kind = "raise")
           => (AbortedUnknownTool' /\ ~ParseFailed' /\ pc' = "done" /\ exc' = "")]_vars

\* C17 witness: main has returned on an unknown tool whose action input has
\* an opening brace that is never closed, and no exception left main.
C17_Witness ==
    /\ pc = "done"
    /\ exc = ""
    /\ AbortedUnknownTool
    /\ ActionName(response_message) \notin RegistryKeys
    /\ extract_json(ActionInput(response_message)) = Raise("ValueError", IncompleteMsg)

\* the Observation segments of the transcript
Observations ==
    Cardinality({i \in 1..Len(scratch_pad) : scratch_pad[i] = "Observation:"})

\* C18: in every state of a run the tools were invoked at most as many times
\* as completions were appended to the transcript; that number is at most 10
\* and is the iteration counter or one less; and each appended completion
\* has at most one invocation and at most one Observation segment: while
\* the completion appended last has not been dispatched, the invocations
\* and the observations are fewer than the completions.
C18_CallsBoundedByCompletions ==
    /\ Len(calls) <= appended
    /\ appended <= MaxIterations
    /\ appended \in {current_iteration, current_iteration - 1}
    /\ Observations <= Len(calls)
    /\ Observations <= appended
    /\ pc = "action" => (Len(calls) < appended /\ Observations < appended)

\* C18 witness: ten completions were appended and each of them had its tool
\* invoked and its observation appended.
C18_Witness ==
    /\ appended = MaxIterations
    /\ current_iteration = MaxIterations
    /\ Len(calls) = MaxIterations
    /\ Observations = MaxIterations

====
